---- MODULE Spec2Model ----
(***************************************************************************)
(* Model of the teaching checkpoints: the company/employee directory       *)
(* (checkpoints 8-13), the announcements board (checkpoint 16) and the     *)
(* assignment CSV import (checkpoint 18).  Strings are sequences of        *)
(* one-character strings, so that lower(), substring search and len() are  *)
(* computed the way the code computes them.                                *)
(***************************************************************************)
EXTENDS Integers, Sequences, FiniteSets, TLC

VARIABLES
    companies,      \* rows of clients.Company
    roles,          \* rows of clients.Role
    employees,      \* rows of clients.Employee
    nextId,         \* autoincrement counter of each table
    response,       \* result of the operation that ran last
    reqs,           \* create_company requests in flight, one per worker
    outbox,         \* mails handed to send_mail
    perms,          \* users holding announcements.add_announcement
    announcements,  \* rows of announcements.Announcement
    assignments     \* rows of courses.Assignment

vars == <<companies, roles, employees, nextId, response, reqs, outbox,
          perms, announcements, assignments>>

\* a null foreign key (row ids start at 1)
None == 0

\* ------------------------------------------------------------------------
\* Bounds
\* ------------------------------------------------------------------------
MaxCompanyId == 2
MaxRoleId == 1
MaxEmployeeId == 2

\* ------------------------------------------------------------------------
\* Strings
\* ------------------------------------------------------------------------
UpperLetters == <<"A","B","C","D","E","F","G","H","I","J","K","L","M",
                  "N","O","P","Q","R","S","T","U","V","W","X","Y","Z">>
LowerLetters == <<"a","b","c","d","e","f","g","h","i","j","k","l","m",
                  "n","o","p","q","r","s","t","u","v","w","x","y","z">>

UpperSet == {UpperLetters[i] : i \in 1..Len(UpperLetters)}
LowerOf == [c \in UpperSet |->
              LowerLetters[CHOOSE i \in 1..Len(UpperLetters) : UpperLetters[i] = c]]

\* str.lower() / SQL LIKE folding of one character: ASCII upper case only
LowerChar(c) == IF c \in UpperSet THEN LowerOf[c] ELSE c

LowerStr(s) == [i \in 1..Len(s) |-> LowerChar(s[i])]

\* Python's  w in s
Contains(s, w) ==
    \E i \in 1..(Len(s) - Len(w) + 1) : SubSeq(s, i, i + Len(w) - 1) = w

\* the ORM's  field__icontains=q  lookup
IContains(s, q) == Contains(LowerStr(s), LowerStr(q))

\* ------------------------------------------------------------------------
\* The directory tables (checkpoint 12 models)
\* ------------------------------------------------------------------------
Ids(table) == {r.id : r \in table}

NewCompany(id, name, email, description) ==
    [id |-> id, name |-> name, email |-> email, description |-> description]

NewRole(id, name) == [id |-> id, name |-> name]

NewEmployee(id, first_name, last_name, email, company, role) ==
    [id |-> id, first_name |-> first_name, last_name |-> last_name,
     email |-> email, company |-> company, role |-> role]

\* Employee.company: on_delete=CASCADE
CascadeNoDelete(cid, emps) == emps
CascadeCompany(cid, emps) == {e \in emps : e.company # cid}

\* Employee.role: on_delete=SET_NULL
SetNullRole(rid, emps) ==
    {IF e.role = rid THEN [e EXCEPT !.role = None] ELSE e : e \in emps}

\* company.employees, the reverse manager of Employee.company
RelatedEmployees(cid, emps) == {e \in emps : e.company = cid}

DirUnchanged == UNCHANGED <<reqs, outbox, perms, announcements, assignments>>

\* Company.objects.create(...): email is unique
CompanyCreate(name, email, description) ==
    /\ nextId.company <= MaxCompanyId
    /\ IF \E c \in companies : c.email = email
       THEN /\ response' = [op |-> "Company.create", status |-> "IntegrityError"]
            /\ UNCHANGED <<companies, nextId>>
       ELSE /\ companies' = companies \cup
                   {NewCompany(nextId.company, name, email, description)}
            /\ nextId' = [nextId EXCEPT !.company = @ + 1]
            /\ response' = [op |-> "Company.create", status |-> "ok"]
    /\ UNCHANGED <<roles, employees>>
    /\ DirUnchanged

\* Role.objects.create(...): name is unique
RoleCreate(name) ==
    /\ nextId.role <= MaxRoleId
    /\ IF \E r \in roles : r.name = name
       THEN /\ response' = [op |-> "Role.create", status |-> "IntegrityError"]
            /\ UNCHANGED <<roles, nextId>>
       ELSE /\ roles' = roles \cup {NewRole(nextId.role, name)}
            /\ nextId' = [nextId EXCEPT !.role = @ + 1]
            /\ response' = [op |-> "Role.create", status |-> "ok"]
    /\ UNCHANGED <<companies, employees>>
    /\ DirUnchanged

\* Employee.objects.create(...): email is unique, company is a required
\* foreign key, role a nullable one
EmployeeCreate(first_name, last_name, email, company, role) ==
    /\ nextId.employee <= MaxEmployeeId
    /\ IF \/ \E e \in employees : e.email = email
          \/ company \notin Ids(companies)
          \/ (role # None /\ role \notin Ids(roles))
       THEN /\ response' = [op |-> "Employee.create", status |-> "IntegrityError"]
            /\ UNCHANGED <<employees, nextId>>
       ELSE /\ employees' = employees \cup
                   {NewEmployee(nextId.employee, first_name, last_name,
                                email, company, role)}
            /\ nextId' = [nextId EXCEPT !.employee = @ + 1]
            /\ response' = [op |-> "Employee.create", status |-> "ok"]
    /\ UNCHANGED <<companies, roles>>
    /\ DirUnchanged

CompanyDelete(cid) ==
    /\ cid \in Ids(companies)
    /\ companies' = {c \in companies : c.id # cid}
    /\ employees' = CascadeCompany(cid, employees)
    /\ response' = [op |-> "Company.delete", status |-> "ok"]
    /\ UNCHANGED <<roles, nextId>>
    /\ DirUnchanged

RoleDelete(rid) ==
    /\ rid \in Ids(roles)
    /\ roles' = {r \in roles : r.id # rid}
    /\ employees' = SetNullRole(rid, employees)
    /\ response' = [op |-> "Role.delete", status |-> "ok"]
    /\ UNCHANGED <<companies, nextId>>
    /\ DirUnchanged

EmployeeDelete(eid) ==
    /\ eid \in Ids(employees)
    /\ employees' = {e \in employees : e.id # eid}
    /\ response' = [op |-> "Employee.delete", status |-> "ok"]
    /\ UNCHANGED <<companies, roles, nextId>>
    /\ DirUnchanged

\* ------------------------------------------------------------------------
\* employees_search_results
\* ------------------------------------------------------------------------
\* request.GET maps a key to the list of the values given for it: no value
\* when the key is absent
Absent == <<>>
Given(s) == <<s>>

\* request.GET.get('q', ''): the last value, or the default
GetQuery(q) == IF Len(q) = 0 THEN <<>> ELSE q[Len(q)]

\* Q(first_name__icontains=query) | Q(last_name__icontains=query)
NameMatchesFirstOnly(e, query) == IContains(e.first_name, query)
NameMatches(e, query) ==
    IContains(e.first_name, query) \/ IContains(e.last_name, query)

\* checkpoint 10
SearchResults10(company_id, q) ==
    LET query == GetQuery(q) IN
    IF company_id \notin Ids(companies)
    THEN [op |-> "employees_search_results_10", status |-> 404]
    ELSE [op |-> "employees_search_results_10", status |-> 200,
          company_id |-> company_id, q |-> q, query |-> query,
          employees |->
            IF query # <<>>
            THEN {e \in RelatedEmployees(company_id, employees) :
                      NameMatches(e, query)}
            ELSE {}]

employees_search_results_10(company_id, q) ==
    /\ response' = SearchResults10(company_id, q)
    /\ UNCHANGED <<companies, roles, employees, nextId>>
    /\ DirUnchanged

\* checkpoint 13
SearchResults13(company_id, q) ==
    LET query == GetQuery(q) IN
    IF company_id \notin Ids(companies)
    THEN [op |-> "employees_search_results_13", status |-> 404]
    ELSE [op |-> "employees_search_results_13", status |-> 200,
          company_id |-> company_id, q |-> q, query |-> query,
          employees |->
            IF query # <<>>
            THEN {e \in employees : NameMatches(e, query)}
            ELSE {}]

employees_search_results_13(company_id, q) ==
    /\ response' = SearchResults13(company_id, q)
    /\ UNCHANGED <<companies, roles, employees, nextId>>
    /\ DirUnchanged

\* ------------------------------------------------------------------------
\* Specification of the directory: ORM calls and the two search views
\* ------------------------------------------------------------------------
DirCompanyNames == {<<"A","c","m","e">>}
DirCompanyEmails == {"a@acme.test", "b@acme.test"}
DirRoleNames == {"CEO"}
DirPersons == {[first_name |-> <<"A","n","n">>, last_name |-> <<"L","E","E">>],
               [first_name |-> <<"B","o">>, last_name |-> <<"H","A","N">>]}
DirEmployeeEmails == {"e1@acme.test", "e2@acme.test"}
DirQueries == {Absent, Given(<<>>), Given(<<"a","n">>), Given(<<"E","e">>)}

NoResponse == [op |-> "none"]

InitOther ==
    /\ reqs = <<>>
    /\ outbox = <<>>
    /\ perms = {}
    /\ announcements = {}
    /\ assignments = {}

DirInit ==
    /\ companies = {}
    /\ roles = {}
    /\ employees = {}
    /\ nextId = [company |-> 1, role |-> 1, employee |-> 1, announcement |-> 1,
                 assignment |-> 1]
    /\ response = NoResponse
    /\ InitOther

DirNext ==
    \/ \E n \in DirCompanyNames, m \in DirCompanyEmails :
          CompanyCreate(n, m, <<>>)
    \/ \E n \in DirRoleNames : RoleCreate(n)
    \/ \E p \in DirPersons, m \in DirEmployeeEmails,
          c \in 1..MaxCompanyId, r \in (1..MaxRoleId) \cup {None} :
          EmployeeCreate(p.first_name, p.last_name, m, c, r)
    \/ \E c \in 1..MaxCompanyId : CompanyDelete(c)
    \/ \E r \in 1..MaxRoleId : RoleDelete(r)
    \/ \E e \in 1..MaxEmployeeId : EmployeeDelete(e)
    \/ \E c \in 1..MaxCompanyId, q \in DirQueries :
          employees_search_results_10(c, q)
    \/ \E c \in 1..MaxCompanyId, q \in DirQueries :
          employees_search_results_13(c, q)

DirSpec == DirInit /\ [][DirNext]_vars

\* q occurs in s at some offset, letter case ignored
OccursIgnoringCase(s, q) ==
    \E k \in 0..(Len(s) - Len(q)) :
        \A i \in 1..Len(q) : LowerChar(s[k + i]) = LowerChar(q[i])

\* C1: in checkpoint 10 a search of an existing company returns exactly the
\* employees of that company whose first or last name contains q, letter
\* case ignored; an absent or empty q returns the empty set.
C1_SearchExact ==
    (response.op = "employees_search_results_10" /\ response.status = 200) =>
        IF Len(response.q) = 0 \/ Len(response.q[1]) = 0
        THEN response.employees = {}
        ELSE response.employees =
                {e \in employees :
                    /\ e.company = response.company_id
                    /\ \/ OccursIgnoringCase(e.first_name, response.q[1])
                       \/ OccursIgnoringCase(e.last_name, response.q[1])}

\* a search that matched through the last name only and through letter-case
\* folding, while another company has a matching employee that is left out
C1_Witness ==
    /\ response.op = "employees_search_results_10"
    /\ response.status = 200
    /\ response.query = <<"a","n">>
    /\ \E e \in response.employees :
          /\ ~Contains(e.first_name, response.query)
          /\ ~Contains(e.last_name, response.query)
    /\ \E e \in employees :
          /\ e.company # response.company_id
          /\ IContains(e.first_name, response.query)

\* C2: in checkpoint 13 every employee in the search results belongs to the
\* company named by company_id.
C2_ResultsOfCompany ==
    (response.op = "employees_search_results_13" /\ response.status = 200) =>
        \A e \in response.employees : e.company = response.company_id

C8_EmployeesHaveCompany ==
    \A e \in employees : e.company \in Ids(companies)

C8_CompanyDeleteCascades ==
    \A c \in companies :
        c.id \notin Ids(companies') =>
            /\ \A e \in employees' : e.company # c.id
            /\ \A e \in employees : e.company # c.id => e \in employees'

C8_RoleDeleteSetsNull ==
    \A r \in roles :
        r.id \notin Ids(roles') =>
            /\ Ids(employees') = Ids(employees)
            /\ \A e \in employees :
                  IF e.role = r.id
                  THEN [e EXCEPT !.role = None] \in employees'
                  ELSE e \in employees'

\* C8: every employee references an existing company; deleting a company
\* deletes its employees; deleting a role deletes no employee and nulls the
\* role of those that had it.
C8_ReferentialIntegrity ==
    /\ []C8_EmployeesHaveCompany
    /\ [][C8_CompanyDeleteCascades /\ C8_RoleDeleteSetsNull]_vars

\* a company and a role have both been deleted, an employee that held the
\* deleted role survives with no role, and an employee id is gone
C8_Witness ==
    /\ nextId.company > 1 + Cardinality(companies)
    /\ nextId.role > 1 + Cardinality(roles)
    /\ \E e \in employees : e.role = None /\ e.id = 2
    /\ 1 \notin Ids(employees)
    /\ nextId.employee = 3
    /\ response.op = "Role.delete"

\* ------------------------------------------------------------------------
\* Form fields
\* ------------------------------------------------------------------------
RECURSIVE LStrip(_)
LStrip(s) == IF Len(s) > 0 /\ Head(s) = " " THEN LStrip(Tail(s)) ELSE s

RECURSIVE RStrip(_)
RStrip(s) ==
    IF Len(s) > 0 /\ s[Len(s)] = " " THEN RStrip(SubSeq(s, 1, Len(s) - 1)) ELSE s

\* forms.CharField.to_python: surrounding white space is stripped
Strip(s) == RStrip(LStrip(s))

\* ------------------------------------------------------------------------
\* The announcements board (checkpoint 16)
\* ------------------------------------------------------------------------
MaxAnnouncementId == 2
TitleMaxLength == 100

AnonymousUser == "AnonymousUser"
Users == {"teacher", "student"}

\* request.user.is_authenticated
IsAuthenticated(user) == user # AnonymousUser

\* user.has_perms(('announcements.add_announcement',))
HasPermAlways(user) == TRUE
HasPerm(user) == user \in perms

\* AnnouncementForm(request.POST).is_valid(): title and message are required
AnnouncementFormIsValid(data) ==
    /\ Strip(data.title) # <<>>
    /\ Len(Strip(data.title)) <= TitleMaxLength
    /\ Strip(data.message) # <<>>

AnnUnchanged ==
    UNCHANGED <<companies, roles, employees, reqs, outbox, assignments>>

\* the body of create_announcement, behind its decorators
CreateAnnouncementView(user, method, data) ==
    IF method = "POST"
    THEN IF AnnouncementFormIsValid(data)
         THEN /\ announcements' = announcements \cup
                     {[id |-> nextId.announcement,
                       title |-> Strip(data.title),
                       message |-> Strip(data.message),
                       created_by |-> user]}
              /\ nextId' = [nextId EXCEPT !.announcement = @ + 1]
              /\ response' = [op |-> "create_announcement", user |-> user,
                              method |-> method, data |-> data,
                              status |-> 302, location |-> "announcement_list"]
         ELSE /\ response' = [op |-> "create_announcement", user |-> user,
                              method |-> method, data |-> data,
                              status |-> 200, location |-> ""]
              /\ UNCHANGED <<announcements, nextId>>
    ELSE /\ response' = [op |-> "create_announcement", user |-> user,
                         method |-> method, data |-> data,
                         status |-> 200, location |-> ""]
         /\ UNCHANGED <<announcements, nextId>>

\* @login_required @permission_required(..., raise_exception=True)
create_announcement(user, method, data) ==
    /\ nextId.announcement <= MaxAnnouncementId
    /\ IF ~IsAuthenticated(user)
       THEN /\ response' = [op |-> "create_announcement", user |-> user,
                            method |-> method, data |-> data,
                            status |-> 302, location |-> "login"]
            /\ UNCHANGED <<announcements, nextId>>
       ELSE IF ~HasPerm(user)
       THEN /\ response' = [op |-> "create_announcement", user |-> user,
                            method |-> method, data |-> data,
                            status |-> 403, location |-> ""]
            /\ UNCHANGED <<announcements, nextId>>
       ELSE CreateAnnouncementView(user, method, data)
    /\ UNCHANGED perms
    /\ AnnUnchanged

\* user.user_permissions.add(...) / a group change made in the admin site
GrantPermission(user) ==
    /\ user \notin perms
    /\ perms' = perms \cup {user}
    /\ response' = [op |-> "grant"]
    /\ UNCHANGED <<announcements, nextId>>
    /\ AnnUnchanged

RevokePermission(user) ==
    /\ user \in perms
    /\ perms' = perms \ {user}
    /\ response' = [op |-> "revoke"]
    /\ UNCHANGED <<announcements, nextId>>
    /\ AnnUnchanged

Methods == {"GET", "POST", "PUT"}
AnnTitles == {<<>>, <<" ">>, <<"H","i">>}
AnnMessages == {<<>>, <<"o","k">>}

AnnInit ==
    /\ companies = {}
    /\ roles = {}
    /\ employees = {}
    /\ nextId = [company |-> 1, role |-> 1, employee |-> 1, announcement |-> 1,
                 assignment |-> 1]
    /\ response = NoResponse
    /\ InitOther

AnnNext ==
    \/ \E u \in Users \cup {AnonymousUser}, m \in Methods,
          t \in AnnTitles, b \in AnnMessages :
          create_announcement(u, m, [title |-> t, message |-> b])
    \/ \E u \in Users : GrantPermission(u)
    \/ \E u \in Users : RevokePermission(u)

AnnSpec == AnnInit /\ [][AnnNext]_vars

C3_StepCreatesOnlyWithPermission ==
    \A a \in announcements' \ announcements :
        /\ response'.op = "create_announcement"
        /\ response'.method = "POST"
        /\ Strip(response'.data.title) # <<>>
        /\ Strip(response'.data.message) # <<>>
        /\ response'.user # AnonymousUser
        /\ response'.user \in perms
        /\ a.created_by = response'.user

C3_NoAnonymousAnnouncement ==
    \A a \in announcements : a.created_by \in Users

\* C3: an announcement is persisted only by a POST with a valid form from an
\* authenticated user holding announcements.add_announcement; no announcement
\* is ever created by an anonymous request or by a user lacking the
\* permission.
C3_OnlyPermittedCreate ==
    /\ []C3_NoAnonymousAnnouncement
    /\ [][C3_StepCreatesOnlyWithPermission]_vars

\* an announcement was created by a user whose permission has since been
\* revoked, and a request of that user has then been refused
C3_Witness ==
    /\ \E a \in announcements : a.created_by \notin perms
    /\ response.op = "create_announcement"
    /\ response.method = "POST"
    /\ response.status = 403
    /\ \E a \in announcements : a.created_by = response.user

\* C4: a create_announcement request of a user without the permission is
\* redirected to the login page.
C4_NoPermissionRedirectsToLogin ==
    (response.op = "create_announcement" /\ response.user \notin perms) =>
        (response.status = 302 /\ response.location = "login")

\* ------------------------------------------------------------------------
\* CompanyForm and create_company (checkpoint 13)
\* ------------------------------------------------------------------------
NumWorkers == 2
NameMaxLength == 100
NameMinLength == 3
MaxOutbox == 2

Workers == 1..NumWorkers

\* forms.EmailField: local@domain with a dotted domain
IndexOf(s, c) == IF \E i \in 1..Len(s) : s[i] = c
                 THEN CHOOSE i \in 1..Len(s) : s[i] = c /\ \A j \in 1..(i-1) : s[j] # c
                 ELSE 0

EmailIsValid(e) ==
    LET at == IndexOf(e, "@")
        domain == SubSeq(e, at + 1, Len(e))
        dot == IndexOf(domain, ".")
    IN /\ at > 1
       /\ IndexOf(domain, "@") = 0
       /\ dot > 1
       /\ dot < Len(domain)
       /\ \A i \in 1..Len(e) : e[i] # " "

ForbiddenWords == << <<"s","p","a","m">>, <<"f","a","k","e">>, <<"s","c","a","m">> >>

\* for word in forbidden_words:
\*     if word in description.lower() or word in name.lower(): raise ...
\* the index of the word that raises, 0 when the loop ends without raising
WordHit(name, description, i) ==
    \/ Contains(LowerStr(description), ForbiddenWords[i])
    \/ Contains(LowerStr(name), ForbiddenWords[i])

FirstForbiddenFieldMajor(name, description) ==
    LET inName == {i \in 1..Len(ForbiddenWords) :
                      Contains(LowerStr(name), ForbiddenWords[i])}
        inDesc == {i \in 1..Len(ForbiddenWords) :
                      Contains(LowerStr(description), ForbiddenWords[i])}
    IN IF inName # {} THEN CHOOSE i \in inName : \A j \in inName : i <= j
       ELSE IF inDesc # {} THEN CHOOSE i \in inDesc : \A j \in inDesc : i <= j
       ELSE 0

FirstForbidden(name, description) ==
    LET hits == {i \in 1..Len(ForbiddenWords) : WordHit(name, description, i)}
    IN IF hits = {} THEN 0 ELSE CHOOSE i \in hits : \A j \in hits : i <= j

Err(field, code, word) == [field |-> field, code |-> code, word |-> word]

\* the name field: CharField(max_length=100), then clean_name
NameErrors(name) ==
    IF name = <<>> THEN {Err("name", "This field is required.", 0)}
    ELSE IF Len(name) > NameMaxLength
    THEN {Err("name", "Ensure this value has at most 100 characters.", 0)}
    ELSE IF Len(name) < NameMinLength
    THEN {Err("name", "Company name must be at least 3 characters long.", 0)}
    ELSE {}

\* the email field: EmailField()
EmailErrors(email) ==
    IF email = <<>> THEN {Err("email", "This field is required.", 0)}
    ELSE IF ~EmailIsValid(email)
    THEN {Err("email", "Enter a valid email address.", 0)}
    ELSE {}

\* Company.objects.filter(email=email).exists()
EmailExists(email) == \E c \in companies : c.email = email

\* Company.email: unique=True
UniqueViolationNever(email) == FALSE
UniqueViolation(email) == \E c \in companies : c.email = email

\* CompanyForm.clean: the non-field errors
CleanErrors(has_name, name, has_email, email, description) ==
    IF has_email /\ EmailExists(email)
    THEN {Err("__all__", "A company with this email already exists.", 0)}
    ELSE LET w == FirstForbidden(IF has_name THEN name ELSE <<>>, description)
         IN IF w # 0
            THEN {Err("__all__", "The company contains a forbidden word: ", w)}
            ELSE {}

\* ModelForm._post_clean: validate_unique on the fields that passed
PostCleanErrors(has_email, email) ==
    IF has_email /\ UniqueViolation(email)
    THEN {Err("email", "Company with this Email already exists.", 0)}
    ELSE {}

\* CompanyForm(request.POST).errors
CompanyFormErrors(data) ==
    LET name == Strip(data.name)
        email == Strip(data.email)
        description == Strip(data.description)
        has_name == NameErrors(name) = {}
        has_email == EmailErrors(email) = {}
    IN NameErrors(name) \cup EmailErrors(email)
         \cup CleanErrors(has_name, name, has_email, email, description)
         \cup PostCleanErrors(has_email, email)

Idle == [pc |-> "idle"]

FormUnchanged ==
    UNCHANGED <<roles, employees, perms, announcements, assignments>>

CompanyResponse(w, method, data, result, errors, new_company) ==
    [op |-> "create_company", worker |-> w, method |-> method, data |-> data,
     result |-> result, errors |-> errors, new_company |-> new_company]

\* create_company up to form.is_valid(): every branch but the valid POST
\* finishes the request here
create_company_begin(w, method, data) ==
    /\ reqs[w].pc = "idle"
    /\ nextId.company <= MaxCompanyId
    /\ IF method = "POST"
       THEN LET errors == CompanyFormErrors(data) IN
            IF errors = {}
            THEN /\ reqs' = [reqs EXCEPT ![w] =
                               [pc |-> "valid", method |-> method, data |-> data]]
                 /\ response' = [op |-> "create_company.is_valid", worker |-> w]
            ELSE /\ response' = CompanyResponse(w, method, data, "HttpResponse",
                                                errors, None)
                 /\ UNCHANGED reqs
       ELSE IF method = "GET"
       THEN /\ response' = CompanyResponse(w, method, data, "HttpResponse", {}, None)
            /\ UNCHANGED reqs
       ELSE /\ response' = CompanyResponse(w, method, data, "None", {}, None)
            /\ UNCHANGED reqs
    /\ UNCHANGED <<companies, nextId, outbox>>
    /\ FormUnchanged

\* form.save() and the response that follows it
create_company_save(w) ==
    /\ reqs[w].pc = "valid"
    /\ LET data == reqs[w].data
           email == Strip(data.email)
       IN IF UniqueViolation(email)
          THEN /\ response' = CompanyResponse(w, reqs[w].method, data,
                                              "IntegrityError", {}, None)
               /\ UNCHANGED <<companies, nextId>>
          ELSE /\ companies' = companies \cup
                     {NewCompany(nextId.company, Strip(data.name), email,
                                 Strip(data.description))}
               /\ nextId' = [nextId EXCEPT !.company = @ + 1]
               /\ response' = CompanyResponse(w, reqs[w].method, data,
                                              "HttpResponse", {}, nextId.company)
    /\ reqs' = [reqs EXCEPT ![w] = Idle]
    /\ UNCHANGED outbox
    /\ FormUnchanged

\* ------------------------------------------------------------------------
\* ContactForm and contact_us (checkpoint 13)
\* ------------------------------------------------------------------------
ContactNameMinLength == 2
ContactMessageMinLength == 10
AdminAccount == "some_admin_account@test.com"

ContactNameErrors(name) ==
    IF name = <<>> THEN {Err("name", "This field is required.", 0)}
    ELSE IF Len(name) > NameMaxLength
    THEN {Err("name", "Ensure this value has at most 100 characters.", 0)}
    ELSE IF Len(name) < ContactNameMinLength
    THEN {Err("name", "Name must be at least 2 characters long.", 0)}
    ELSE {}

ContactMessageErrorsNoMin(message) ==
    IF message = <<>> THEN {Err("message", "This field is required.", 0)} ELSE {}
ContactMessageErrors(message) ==
    IF message = <<>> THEN {Err("message", "This field is required.", 0)}
    ELSE IF Len(message) < ContactMessageMinLength
    THEN {Err("message", "Message must be at least 10 characters long.", 0)}
    ELSE {}

ContactFormErrors(data) ==
    ContactNameErrors(Strip(data.name)) \cup EmailErrors(Strip(data.email))
        \cup ContactMessageErrors(Strip(data.message))

\* the template context: the form (bound to the submitted data, or a blank
\* ContactForm()), its errors and the success flag
ContactResponse(method, data, result, bound, errors, success) ==
    [op |-> "contact_us", method |-> method, data |-> data, result |-> result,
     bound |-> bound, errors |-> errors, success |-> success]

contact_us(method, data) ==
    /\ Len(outbox) < MaxOutbox
    /\ IF method = "GET"
       THEN /\ response' = ContactResponse(method, data, "HttpResponse", FALSE, {}, FALSE)
            /\ UNCHANGED outbox
       ELSE IF method = "POST"
       THEN LET errors == ContactFormErrors(data) IN
            IF errors = {}
            THEN /\ outbox' = Append(outbox,
                        [subject_name |-> Strip(data.name),
                         message |-> Strip(data.message),
                         from_email |-> Strip(data.email),
                         recipient_list |-> <<AdminAccount>>])
                 /\ response' = ContactResponse(method, data, "HttpResponse", FALSE, {}, TRUE)
            ELSE /\ response' = ContactResponse(method, data, "HttpResponse", TRUE,
                                                errors, FALSE)
                 /\ UNCHANGED outbox
       ELSE /\ response' = ContactResponse(method, data, "None", FALSE, {}, FALSE)
            /\ UNCHANGED outbox
    /\ UNCHANGED <<companies, nextId, reqs>>
    /\ FormUnchanged

\* ------------------------------------------------------------------------
\* Specification of the form views: create_company on NumWorkers workers,
\* contact_us
\* ------------------------------------------------------------------------
LongSpamName == [i \in 1..(NameMaxLength + 1) |->
                    IF i <= 4 THEN ForbiddenWords[1][i] ELSE "x"]

FormNames == {<<"a","b">>, <<"A","c","m","e">>, <<"S","c","A","m">>, LongSpamName}
FormEmails == {<<"b","a","d">>, <<"a","@","x",".","t">>, <<"b","@","x",".","t">>}
FormDescriptions == {<<>>, <<"a"," ","F","a","k","e">>}
FormMethods == {"GET", "POST", "PUT"}

ContactNames == {<<"A">>, <<"A","l">>, LongSpamName}
ContactEmails == {<<"b","a","d">>, <<"a","@","x",".","t">>}
ContactMessages == {<<"h","i">>, <<"h","i"," "," "," "," "," "," "," "," ">>,
                    <<"h","e","l","l","o"," ","t","h","e","r","e">>}

FormInit ==
    /\ companies = {}
    /\ roles = {}
    /\ employees = {}
    /\ nextId = [company |-> 1, role |-> 1, employee |-> 1, announcement |-> 1,
                 assignment |-> 1]
    /\ response = NoResponse
    /\ reqs = [w \in Workers |-> Idle]
    /\ outbox = <<>>
    /\ perms = {}
    /\ announcements = {}
    /\ assignments = {}

\* the form data of a request: a POST carries a submission, any other method
\* an empty request.POST
FormSubmissions(method) ==
    IF method = "POST"
    THEN {[name |-> n, email |-> e, description |-> d] :
              n \in FormNames, e \in FormEmails, d \in FormDescriptions}
    ELSE {[name |-> <<>>, email |-> <<>>, description |-> <<>>]}

ContactSubmissions(method) ==
    IF method = "POST"
    THEN {[name |-> n, email |-> e, message |-> b] :
              n \in ContactNames, e \in ContactEmails, b \in ContactMessages}
    ELSE {[name |-> <<>>, email |-> <<>>, message |-> <<>>]}

FormNext ==
    \/ \E w \in Workers, m \in FormMethods :
          \E data \in FormSubmissions(m) : create_company_begin(w, m, data)
    \/ \E w \in Workers : create_company_save(w)
    \/ \E m \in FormMethods :
          \E data \in ContactSubmissions(m) : contact_us(m, data)

FormSpec == FormInit /\ [][FormNext]_vars

\* C5: for every request method create_company and contact_us return a
\* response object.
C5_ViewsReturnResponse ==
    response.op \in {"create_company", "contact_us"} =>
        response.result = "HttpResponse"

\* the first of spam, fake, scam (as an index) that occurs in the name or in
\* the description, letter case ignored; 0 when none does
FirstWordIn(name, description) ==
    LET hits == {i \in 1..Len(ForbiddenWords) :
                    \/ OccursIgnoringCase(name, ForbiddenWords[i])
                    \/ OccursIgnoringCase(description, ForbiddenWords[i])}
    IN IF hits = {} THEN 0 ELSE CHOOSE i \in hits : \A j \in hits : i <= j

C7_IsPost == response.op = "create_company" /\ response.method = "POST"

\* rejected whenever the name is short or a forbidden word occurs
C7_Rejects ==
    (/\ C7_IsPost
     /\ \/ Len(response.data.name) < 3
        \/ FirstWordIn(response.data.name, response.data.description) # 0)
    => (/\ response.errors # {}
        /\ response.new_company = None)

\* a company is persisted only for a submission that passes the checks
C7_PersistsOnlyClean ==
    \A c \in companies' \ companies :
        /\ response'.op = "create_company"
        /\ response'.method = "POST"
        /\ response'.new_company = c.id
        /\ Len(response'.data.name) >= 3
        /\ FirstWordIn(response'.data.name, response'.data.description) = 0

C7_ReportsFirstOfSubmission ==
    C7_IsPost =>
        \A err \in response.errors :
            err.word # 0 =>
                err.word = FirstWordIn(response.data.name, response.data.description)

\* C7 as stated: rejection of short names and forbidden words, the reported
\* word being the first of spam, fake, scam found in the submission, and
\* persistence only of submissions that pass.
C7_AsStated ==
    /\ [](C7_Rejects /\ C7_ReportsFirstOfSubmission)
    /\ [][C7_PersistsOnlyClean]_vars

C7_ReportsFirstOfCleaned ==
    C7_IsPost =>
        \A err \in response.errors :
            err.word # 0 =>
                err.word = FirstWordIn(
                    IF Len(Strip(response.data.name)) <= NameMaxLength
                    THEN response.data.name ELSE <<>>,
                    response.data.description)

\* C7 (amended): as C7, the reported word being the first of spam, fake, scam
\* found in the description or in the name, where a name longer than 100
\* characters is not searched.
C7_CompanyFormValidation ==
    /\ [](C7_Rejects /\ C7_ReportsFirstOfCleaned)
    /\ [][C7_PersistsOnlyClean]_vars

\* a POST whose name holds scam and whose description holds fake, both in
\* mixed case, reported fake, while a company exists
C7_Witness ==
    /\ C7_IsPost
    /\ Err("__all__", "The company contains a forbidden word: ", 2) \in response.errors
    /\ OccursIgnoringCase(response.data.name, ForbiddenWords[3])
    /\ ~Contains(response.data.name, ForbiddenWords[3])
    /\ ~Contains(response.data.description, ForbiddenWords[2])
    /\ companies # {}

C10_UniqueEmails ==
    \A c1 \in companies : \A c2 \in companies :
        c1.email = c2.email => c1 = c2

C10_DuplicateRejected ==
    (/\ response'.op = "create_company"
     /\ response'.method = "POST"
     /\ reqs' = reqs
     /\ \E c \in companies : c.email = Strip(response'.data.email))
    => (/\ Err("__all__", "A company with this email already exists.", 0)
              \in response'.errors
        /\ response'.new_company = None
        /\ companies' = companies)

\* C10: no two companies share an email, however the requests interleave; a
\* POST whose email already belongs to a company is rejected with 'A company
\* with this email already exists.' and leaves the companies unchanged.
C10_EmailUniqueness ==
    /\ []C10_UniqueEmails
    /\ [][C10_DuplicateRejected]_vars

\* two workers validated the same email before either saved; one has saved,
\* the other is still to save, and a further POST of that email was rejected
C10_Witness ==
    /\ response.op = "create_company"
    /\ response.method = "POST"
    /\ Err("__all__", "A company with this email already exists.", 0)
          \in response.errors
    /\ \E w \in Workers :
          /\ reqs[w].pc = "valid"
          /\ Strip(reqs[w].data.email) = Strip(response.data.email)
    /\ \E c \in companies : c.email = Strip(response.data.email)

C11_IsContactStep == response'.op = "contact_us"

\* the form of a submission is valid: name of 2 to 100 characters, a valid
\* email, message of at least 10 characters, surrounding white space apart
C11_FormIsValid(data) ==
    /\ Len(Strip(data.name)) >= 2
    /\ Len(Strip(data.name)) <= 100
    /\ EmailIsValid(Strip(data.email))
    /\ Len(Strip(data.message)) >= 10

\* a valid POST sends one mail, to the admin account, from the submitter
C11_ValidPostSendsOne ==
    (/\ C11_IsContactStep
     /\ response'.method = "POST"
     /\ C11_FormIsValid(response'.data))
    => (/\ Len(outbox') = Len(outbox) + 1
        /\ SubSeq(outbox', 1, Len(outbox)) = outbox
        /\ outbox'[Len(outbox')].recipient_list = <<"some_admin_account@test.com">>
        /\ outbox'[Len(outbox')].from_email = Strip(response'.data.email)
        /\ response'.success)

\* nothing else sends mail: not a GET, not an invalid POST, not another view
C11_OtherwiseSendsNone ==
    ~(/\ C11_IsContactStep
      /\ response'.method = "POST"
      /\ C11_FormIsValid(response'.data))
    => outbox' = outbox

\* an invalid POST returns the bound form, its errors and no success flag
C11_InvalidPostReturnsErrors ==
    (/\ C11_IsContactStep
     /\ response'.method = "POST"
     /\ ~C11_FormIsValid(response'.data))
    => (/\ response'.result = "HttpResponse"
        /\ response'.bound
        /\ response'.errors # {}
        /\ ~response'.success)

MaxAssignmentId == 3

Digits == <<"0","1","2","3","4","5","6","7","8","9">>

IsDigits(s) == \A i \in 1..Len(s) : \E d \in 1..Len(Digits) : Digits[d] = s[i]

DigitVal(c) == (CHOOSE d \in 1..Len(Digits) : Digits[d] = c) - 1

RECURSIVE ToInt(_)
ToInt(s) == IF s = <<>> THEN 0
            ELSE 10 * ToInt(SubSeq(s, 1, Len(s) - 1)) + DigitVal(s[Len(s)])

IsLeap(y) == (y % 4 = 0 /\ y % 100 # 0) \/ y % 400 = 0

DaysIn(y, m) == IF m = 2 THEN (IF IsLeap(y) THEN 29 ELSE 28)
                ELSE IF m \in {4, 6, 9, 11} THEN 30 ELSE 31

\* a number field of strptime: lo..hi digits, value in the range
NumberField(s, lo, hi, min, max) ==
    /\ Len(s) >= lo
    /\ Len(s) <= hi
    /\ IsDigits(s)
    /\ ToInt(s) >= min
    /\ ToInt(s) <= max

\* datetime.strptime(f"{date} {time}", "%Y-%m-%d %H:%M")
Strptime(date, time) ==
    LET d1 == IndexOf(date, "-")
        y == SubSeq(date, 1, d1 - 1)
        rest == SubSeq(date, d1 + 1, Len(date))
        d2 == IndexOf(rest, "-")
        m == SubSeq(rest, 1, d2 - 1)
        d == SubSeq(rest, d2 + 1, Len(rest))
        c == IndexOf(time, ":")
        H == SubSeq(time, 1, c - 1)
        M == SubSeq(time, c + 1, Len(time))
        ok == /\ d1 > 0 /\ d2 > 0 /\ c > 0
              /\ NumberField(y, 4, 4, 1, 9999)
              /\ NumberField(m, 1, 2, 1, 12)
              /\ NumberField(d, 1, 2, 1, DaysIn(ToInt(y), ToInt(m)))
              /\ NumberField(H, 1, 2, 0, 23)
              /\ NumberField(M, 1, 2, 0, 59)
    IN IF ok
       THEN [ok |-> TRUE, year |-> ToInt(y), month |-> ToInt(m), day |-> ToInt(d),
             hour |-> ToInt(H), minute |-> ToInt(M)]
       ELSE [ok |-> FALSE, year |-> 0, month |-> 0, day |-> 0, hour |-> 0,
             minute |-> 0]

\* timezone.make_aware(naive_dt): the naive value in the current time zone
MakeAware(naive) ==
    [year |-> naive.year, month |-> naive.month, day |-> naive.day,
     hour |-> naive.hour, minute |-> naive.minute, tzinfo |-> "TIME_ZONE"]

NewAssignment(id, title, description, due_date, owner) ==
    [id |-> id, title |-> title, description |-> description,
     due_date |-> due_date, owner |-> owner]

\* the rows that Assignment.objects.get_or_create(...) looks up
NoMatches(table, title, description, due_date, owner) == {}
Matches(table, title, description, due_date, owner) ==
    {a \in table : /\ a.title = title
                   /\ a.description = description
                   /\ a.due_date = due_date
                   /\ a.owner = owner}

\* the for loop of create_assignments_from_csv from row i on: the table, the
\* id counter and the list built so far, until the rows end or a row raises
RECURSIVE ImportFrom(_, _, _, _, _, _)
ImportFrom(rows, i, owner, table, next, acc) ==
    IF i > Len(rows)
    THEN [status |-> "ok", table |-> table, next |-> next, result |-> acc]
    ELSE LET row == rows[i]
             naive == Strptime(row.date, row.time)
         IN IF ~naive.ok
            THEN [status |-> "ValueError", table |-> table, next |-> next,
                  result |-> acc]
            ELSE LET dt == MakeAware(naive)
                     found == Matches(table, row.title, row.description, dt, owner)
                 IN IF Cardinality(found) > 1
                    THEN [status |-> "MultipleObjectsReturned", table |-> table,
                          next |-> next, result |-> acc]
                    ELSE IF Cardinality(found) = 1
                    THEN ImportFrom(rows, i + 1, owner, table, next,
                                    Append(acc, CHOOSE a \in found : TRUE))
                    ELSE LET new == NewAssignment(next, row.title,
                                                  row.description, dt, owner)
                         IN ImportFrom(rows, i + 1, owner, table \cup {new},
                                       next + 1, Append(acc, new))

CsvUnchanged ==
    UNCHANGED <<companies, roles, employees, reqs, outbox, perms, announcements>>

create_assignments_from_csv(rows, owner) ==
    /\ LET out == ImportFrom(rows, 1, owner, assignments, nextId.assignment, <<>>)
       IN /\ out.next <= MaxAssignmentId + 1
          /\ assignments' = out.table
          /\ nextId' = [nextId EXCEPT !.assignment = out.next]
          /\ response' = [op |-> "create_assignments_from_csv", rows |-> rows,
                          owner |-> owner, status |-> out.status,
                          result |-> out.result,
                          created |-> out.next - nextId.assignment]
    /\ CsvUnchanged

\* Assignment.objects.create(...): the model has no unique constraint
AssignmentCreate(title, description, due_date, owner) ==
    /\ nextId.assignment <= MaxAssignmentId
    /\ assignments' = assignments \cup
          {NewAssignment(nextId.assignment, title, description, due_date, owner)}
    /\ nextId' = [nextId EXCEPT !.assignment = @ + 1]
    /\ response' = [op |-> "Assignment.create"]
    /\ CsvUnchanged

AssignmentDelete(id) ==
    /\ id \in Ids(assignments)
    /\ assignments' = {a \in assignments : a.id # id}
    /\ response' = [op |-> "Assignment.delete"]
    /\ UNCHANGED nextId
    /\ CsvUnchanged

CsvDate1 == <<"2","0","2","6","-","0","3","-","0","5">>
CsvDate1Short == <<"2","0","2","6","-","3","-","5">>
CsvDateLeap == <<"2","0","2","4","-","0","2","-","2","9">>
CsvDateBad == <<"2","0","2","6","-","0","2","-","2","9">>
CsvTime1 == <<"0","9",":","3","0">>
CsvTime1Short == <<"9",":","3","0">>
CsvTime2 == <<"2","3",":","5","9">>

CsvRow(title, description, date, time) ==
    [title |-> title, description |-> description, date |-> date, time |-> time]

CsvHW1 == CsvRow("HW1", "first", CsvDate1, CsvTime1)
CsvHW1Short == CsvRow("HW1", "first", CsvDate1Short, CsvTime1Short)
CsvHW2 == CsvRow("HW2", "second", CsvDateLeap, CsvTime2)
CsvHWBad == CsvRow("HW3", "third", CsvDateBad, CsvTime1)

CsvFiles == {<<>>, <<CsvHW1>>, <<CsvHW1, CsvHW1Short>>, <<CsvHW1, CsvHW2>>,
             <<CsvHW2, CsvHW1Short>>, <<CsvHW2, CsvHWBad>>}

CsvDueDates == {MakeAware(Strptime(CsvDate1, CsvTime1))}

CsvInit ==
    /\ companies = {}
    /\ roles = {}
    /\ employees = {}
    /\ nextId = [company |-> 1, role |-> 1, employee |-> 1, announcement |-> 1,
                 assignment |-> 1]
    /\ response = NoResponse
    /\ InitOther

CsvNext ==
    \/ \E rows \in CsvFiles, owner \in Users : create_assignments_from_csv(rows, owner)
    \/ \E due \in CsvDueDates, owner \in Users :
          AssignmentCreate("HW1", "first", due, owner)
    \/ \E id \in 1..MaxAssignmentId : AssignmentDelete(id)

CsvSpec == CsvInit /\ [][CsvNext]_vars

C6_IsImport(r) == r.op = "create_assignments_from_csv"

\* a second import of the same rows by the same owner, right after one that
\* returned, creates nothing and returns too
C6_SecondImportCreatesNothing ==
    (/\ C6_IsImport(response) /\ response.status = "ok"
     /\ C6_IsImport(response')
     /\ response'.owner = response.owner
     /\ Len(response'.rows) = Len(response.rows)
     /\ response'.rows = response.rows)
    => (/\ assignments' = assignments
        /\ response'.status = "ok"
        /\ response'.created = 0
        /\ response'.result = response.result)

\* the returned list has one entry per data row, in row order, with the row's
\* title, description and due date, owned by the owner and stored
C6_ResultMatchesRows ==
    (C6_IsImport(response) /\ response.status = "ok") =>
        /\ Len(response.result) = Len(response.rows)
        /\ \A i \in 1..Len(response.rows) :
              LET a == response.result[i]
                  row == response.rows[i]
                  naive == Strptime(row.date, row.time)
              IN /\ a.title = row.title
                 /\ a.description = row.description
                 /\ a.due_date.year = naive.year
                 /\ a.due_date.month = naive.month
                 /\ a.due_date.day = naive.day
                 /\ a.due_date.hour = naive.hour
                 /\ a.due_date.minute = naive.minute
                 /\ a.owner = response.owner
                 /\ a \in assignments
        /\ \A i \in 1..Len(response.rows) : \A j \in 1..Len(response.rows) :
              response.rows[i] = response.rows[j] =>
                  response.result[i] = response.result[j]

\* C6: create_assignments_from_csv is idempotent per owner: a second import of
\* the same well-formed CSV by the same owner creates no assignment, and each
\* call returns one entry per data row, in row order, with the row's title,
\* description and due date and the given owner.
C6_ImportIdempotent ==
    /\ []C6_ResultMatchesRows
    /\ [][C6_SecondImportCreatesNothing]_vars

\* a repeated import of two different rows that created nothing, while the
\* other owner holds an assignment with the same title
C6_Witness ==
    /\ C6_IsImport(response)
    /\ response.status = "ok"
    /\ response.created = 0
    /\ Len(response.result) = 2
    /\ response.result[1].id # response.result[2].id
    /\ \E a \in assignments : a.owner # response.owner /\ a.title = "HW1"

\* ------------------------------------------------------------------------
\* load_employees.py (checkpoints 8 and 12)
\* ------------------------------------------------------------------------
new_employees_data_cat_sitting_int == <<
    [first_name |-> "Diana", last_name |-> "Prince",
     email |-> "diana.prince@catsittesting.com",
     company |-> "Cat Sitting International", role |-> "CEO"],
    [first_name |-> "Ethan", last_name |-> "Hunt",
     email |-> "ethan.hunt@catsittesting.com",
     company |-> "Cat Sitting International", role |-> "Manager"],
    [first_name |-> "Fiona", last_name |-> "Green",
     email |-> "fiona.green@catsittesting.com",
     company |-> "Cat Sitting International", role |-> "Developer"] >>

\* the value a CharField, EmailField or TextField takes when none is given
EmptyDefault == ""

\* the rows Employee.objects.get_or_create(...) looks up
NoEmployeeMatches(emps, data, company, role) == {}
EmployeeMatches(emps, data, company, role) ==
    {e \in emps : /\ e.first_name = data.first_name
                  /\ e.last_name = data.last_name
                  /\ e.email = data.email
                  /\ e.company = company
                  /\ e.role = role}

\* the for loop of main() from entry i on; db holds the three tables and the
\* id counters, log the lines printed so far
RECURSIVE MainFrom(_, _, _)
MainFrom(i, db, log) ==
    IF i > Len(new_employees_data_cat_sitting_int)
    THEN [status |-> "ok", db |-> db, log |-> log]
    ELSE
    LET data == new_employees_data_cat_sitting_int[i]
        cs == {c \in db.companies : c.name = data.company}
    IN
    IF Cardinality(cs) > 1
    THEN [status |-> "MultipleObjectsReturned", db |-> db, log |-> log]
    ELSE IF cs = {} /\ \E c \in db.companies : c.email = EmptyDefault
    THEN [status |-> "IntegrityError", db |-> db, log |-> log]
    ELSE
    LET company == IF cs # {} THEN CHOOSE c \in cs : TRUE
                   ELSE NewCompany(db.nextId.company, data.company,
                                   EmptyDefault, EmptyDefault)
        db1 == IF cs # {} THEN db
               ELSE [db EXCEPT !.companies = @ \cup {company},
                               !.nextId.company = @ + 1]
        rs == {r \in db1.roles : r.name = data.role}
        role == IF rs # {} THEN CHOOSE r \in rs : TRUE
                ELSE NewRole(db1.nextId.role, data.role)
        db2 == IF rs # {} THEN db1
               ELSE [db1 EXCEPT !.roles = @ \cup {role}, !.nextId.role = @ + 1]
        es == EmployeeMatches(db2.employees, data, company.id, role.id)
    IN
    IF Cardinality(es) = 1
    THEN MainFrom(i + 1, db2,
                  Append(log, [email |-> data.email, created |-> FALSE]))
    ELSE IF \E e \in db2.employees : e.email = data.email
    THEN [status |-> "IntegrityError", db |-> db2, log |-> log]
    ELSE MainFrom(i + 1,
                  [db2 EXCEPT !.employees = @ \cup
                                 {NewEmployee(db2.nextId.employee, data.first_name,
                                              data.last_name, data.email,
                                              company.id, role.id)},
                              !.nextId.employee = @ + 1],
                  Append(log, [email |-> data.email, created |-> TRUE]))

main ==
    LET out == MainFrom(1, [companies |-> companies, roles |-> roles,
                            employees |-> employees, nextId |-> nextId], <<>>)
    IN /\ out.db.nextId.company <= MaxCompanyId + 2
       /\ out.db.nextId.role <= MaxRoleId + 1 + Len(new_employees_data_cat_sitting_int)
       /\ out.db.nextId.employee <=
              MaxEmployeeId + 1 + Len(new_employees_data_cat_sitting_int)
       /\ companies' = out.db.companies
       /\ roles' = out.db.roles
       /\ employees' = out.db.employees
       /\ nextId' = out.db.nextId
       /\ response' = [op |-> "main", status |-> out.status, log |-> out.log]
       /\ DirUnchanged

LoadCompanyNames == {"Cat Sitting International", "Dog Walkers"}
LoadCompanyEmails == {"", "info@catsittesting.com"}
LoadRoleNames == {"CEO"}
LoadPersons == {[first_name |-> "Diana", last_name |-> "Prince"],
                [first_name |-> "Diana", last_name |-> "Price"]}
LoadEmployeeEmails == {"diana.prince@catsittesting.com"}

LoadNext ==
    \/ main
    \/ \E n \in LoadCompanyNames, m \in LoadCompanyEmails :
          CompanyCreate(n, m, EmptyDefault)
    \/ \E n \in LoadRoleNames : RoleCreate(n)
    \/ \E p \in LoadPersons, m \in LoadEmployeeEmails,
          c \in 1..MaxCompanyId, r \in (1..MaxRoleId) \cup {None} :
          EmployeeCreate(p.first_name, p.last_name, m, c, r)
    \/ \E c \in 1..MaxCompanyId : CompanyDelete(c)
    \/ \E r \in 1..MaxRoleId : RoleDelete(r)
    \/ \E e \in 1..MaxEmployeeId : EmployeeDelete(e)

LoadSpec == DirInit /\ [][LoadNext]_vars

\* a run of main() right after one that completed changes no table and
\* reports every listed employee as already existing
C9_SecondRunChangesNothing ==
    (response.op = "main" /\ response.status = "ok" /\ response'.op = "main")
    => (/\ companies' = companies
        /\ roles' = roles
        /\ employees' = employees
        /\ nextId' = nextId
        /\ response'.status = "ok"
        /\ Len(response'.log) = Len(new_employees_data_cat_sitting_int)
        /\ \A i \in 1..Len(response'.log) :
              /\ response'.log[i].email = new_employees_data_cat_sitting_int[i].email
              /\ ~response'.log[i].created)

\* after a completed run each listed email has exactly one employee, attached
\* to the named company and role
C9_OneEmployeePerEmail ==
    (response.op = "main" /\ response.status = "ok") =>
        \A i \in 1..Len(new_employees_data_cat_sitting_int) :
            LET data == new_employees_data_cat_sitting_int[i]
                es == {e \in employees : e.email = data.email}
            IN /\ Cardinality(es) = 1
               /\ \A e \in es :
                     /\ e.first_name = data.first_name
                     /\ e.last_name = data.last_name
                     /\ \E c \in companies : c.id = e.company /\ c.name = data.company
                     /\ \E r \in roles : r.id = e.role /\ r.name = data.role

\* C9: main() of load_employees is idempotent: after a run that succeeds, a
\* second run creates nothing, leaves the database unchanged and reports every
\* listed employee as already existing; after a run each listed email has
\* exactly one employee, attached to the named company and role.
C9_MainIdempotent ==
    /\ []C9_OneEmployeePerEmail
    /\ [][C9_SecondRunChangesNothing]_vars

\* a second run that found everything in place, in a database that held a
\* company and the first listed employee before the first run
C9_Witness ==
    /\ response.op = "main"
    /\ response.status = "ok"
    /\ \A i \in 1..Len(response.log) : ~response.log[i].created
    /\ \E c \in companies : c.name = "Dog Walkers"
    /\ \E e \in employees : e.id = 1 /\ e.email = "diana.prince@catsittesting.com"
    /\ Cardinality(employees) = 3

====
